---------------------------- MODULE Spec2Model ----------------------------
(***************************************************************************)
(* HierDiff: the BitmapController of HierDiffController.h                  *)
(* (src/unnamed/part_000) as a state machine.                              *)
(*                                                                         *)
(* A bitmap (uint8_t[BITMAP_SIZE]) is represented by its non-zero bytes: a *)
(* function from the indices of the non-zero bytes to their values; every  *)
(* other byte is 0.  A payload buffer (a uint16_t array) is the sequence   *)
(* of its words, C index i being TLA+ index i+1; the null pointer is <<>>. *)
(* Groups (BitmapRef) and deltas (CompressedBitmap) live in two heaps,     *)
(* refs and bitmaps, indexed by allocation order; pointer 0 is nullptr.    *)
(***************************************************************************)
EXTENDS Integers, Sequences, FiniteSets, TLC

BITMAP_SIZE == 7500
MAX_COMPRESS_NUM == 9

\* Bounds of the model: the number of insert_null calls a run makes.
MaxInserts == 4
MaxNullInserts == 11
MaxSerial == 19

VARIABLES
    head_bitmap_cnt,        \* BitmapController::head_bitmap_cnt
    head_bitmap_cnt_lock,   \* owner of the mutex (0: free)
    head_lock,              \* owner of the mutex (0: free)
    first_ref,              \* std::atomic<BitmapRef*> first_ref
    refs,                   \* heap of BitmapRef
    bitmaps,                \* heap of CompressedBitmap
    wr,                     \* writer threads: position and locals
    rd,                     \* reader threads: position and locals
    workload,               \* which images the caller submits
    next_csn,               \* the caller's CSN counter (main.cpp now_csn / pos)
    completed,              \* CSNs whose insert has returned
    fault,                  \* "none", or the undefined behaviour that ended the process
    codec                   \* the codec exercised on its own (SpecCodec)

vars == <<head_bitmap_cnt, head_bitmap_cnt_lock, head_lock, first_ref, refs,
          bitmaps, wr, rd, workload, next_csn, completed, fault, codec>>

ctl_vars == <<head_bitmap_cnt, head_bitmap_cnt_lock, head_lock, first_ref, refs,
              bitmaps, wr, rd, workload, next_csn, completed, fault>>

NULL == 0
NULLBUF == <<>>

-----------------------------------------------------------------------------
(* Bytes and bitmaps *)

Pow2(k) == 2 ^ k

\* (b & (1 << k)) != 0
BitSet(b, k) == (b \div Pow2(k)) % 2 = 1

\* a ^ b on uint8_t
XorByte(a, b) ==
    LET bit(k) == IF BitSet(a, k) # BitSet(b, k) THEN Pow2(k) ELSE 0
    IN bit(0) + bit(1) + bit(2) + bit(3) + bit(4) + bit(5) + bit(6) + bit(7)

Byte(bm, i) == IF i \in DOMAIN bm THEN bm[i] ELSE 0

ZeroBitmap == [i \in {} |-> 0]

\* bm with byte i set to v
SetByte(bm, i, v) ==
    IF v = 0 THEN [k \in DOMAIN bm \ {i} |-> bm[k]]
    ELSE [k \in DOMAIN bm \cup {i} |-> IF k = i THEN v ELSE bm[k]]

\* The bit positions (byte * 8 + j, j counted from the most significant bit)
\* set in bm.
SetBits(bm) ==
    {p \in {i * 8 + j : i \in DOMAIN bm, j \in 0..7} :
        BitSet(bm[p \div 8], 7 - (p % 8))}

xor_function(a, b) ==
    LET idx == {i \in DOMAIN a \cup DOMAIN b : XorByte(Byte(a, i), Byte(b, i)) # 0}
    IN [i \in idx |-> XorByte(Byte(a, i), Byte(b, i))]

\* The elements of S, a set of integers within lo..hi, as an ascending
\* sequence.
RECURSIVE AscendingIn(_, _, _)
AscendingIn(S, lo, hi) ==
    IF S = {} THEN <<>>
    ELSE IF lo = hi THEN <<lo>>
    ELSE LET mid == (lo + hi) \div 2
         IN AscendingIn({x \in S : x <= mid}, lo, mid)
            \o AscendingIn({x \in S : x > mid}, mid + 1, hi)

Ascending(S) == AscendingIn(S, 0, BITMAP_SIZE * 8 - 1)

\* The differing positions in the order the two nested loops of
\* compress_bitmap emit them: ascending byte, then j = 0..7.
DiffPositions(temp) ==
    {p \in {i * 8 + j : i \in DOMAIN temp, j \in 0..7} :
        BitSet(temp[p \div 8], 7 - (p % 8))}

compress_dense(original_bitmap) ==
    [i \in 1..(BITMAP_SIZE \div 2) |->
        Byte(original_bitmap, 2 * (i - 1))
        + 256 * Byte(original_bitmap, 2 * (i - 1) + 1)]

compress_bitmap_gt(original_bitmap, complete_bitmap) ==
    LET temp == xor_function(original_bitmap, complete_bitmap)
        pos == DiffPositions(temp)
        total_cnt == Cardinality(pos)
    IN IF total_cnt > BITMAP_SIZE \div 16
       THEN [is_compressed |-> FALSE,
             compressed_bitmap |-> compress_dense(original_bitmap)]
       ELSE [is_compressed |-> TRUE,
             compressed_bitmap |-> <<total_cnt>> \o Ascending(pos)]

compress_bitmap(original_bitmap, complete_bitmap) ==
    LET temp == xor_function(original_bitmap, complete_bitmap)
        pos == DiffPositions(temp)
        total_cnt == Cardinality(pos)
    IN IF total_cnt >= BITMAP_SIZE \div 16
       THEN [is_compressed |-> FALSE,
             compressed_bitmap |-> compress_dense(original_bitmap)]
       ELSE [is_compressed |-> TRUE,
             compressed_bitmap |-> <<total_cnt>> \o Ascending(pos)]

\* Whether decompress_bitmap stays inside the payload buffer and the result.
decompress_defined(compressed_bitmap, is_compressed) ==
    IF ~is_compressed
    THEN Len(compressed_bitmap) >= BITMAP_SIZE \div 2
    ELSE /\ Len(compressed_bitmap) >= 1
         /\ Len(compressed_bitmap) >= compressed_bitmap[1] + 1
         /\ \A i \in 2..(compressed_bitmap[1] + 1) :
                compressed_bitmap[i] \div 8 < BITMAP_SIZE

\* The loop of bitmap_result[byte_index] ^= (1 << (7 - bit_index)) over the
\* listed positions: a bit ends up flipped iff its position is listed an odd
\* number of times.
decompress_sparse(complete_bitmap, compressed_bitmap) ==
    LET total_cnt == compressed_bitmap[1]
        listed == {compressed_bitmap[i] : i \in 2..(total_cnt + 1)}
        odd == IF Cardinality(listed) = total_cnt THEN listed
               ELSE {p \in listed :
                       Cardinality({i \in 2..(total_cnt + 1) :
                                       compressed_bitmap[i] = p}) % 2 = 1}
        flip(byte_index, bit_index) ==
            IF byte_index * 8 + bit_index \in odd THEN Pow2(7 - bit_index) ELSE 0
        mask(b) == flip(b, 0) + flip(b, 1) + flip(b, 2) + flip(b, 3)
                   + flip(b, 4) + flip(b, 5) + flip(b, 6) + flip(b, 7)
        val(b) == XorByte(Byte(complete_bitmap, b), mask(b))
        cand == DOMAIN complete_bitmap \cup {p \div 8 : p \in odd}
    IN [b \in {c \in cand : val(c) # 0} |-> val(b)]

decompress_dense(complete_bitmap, compressed_bitmap) ==
    LET word(k) == compressed_bitmap[(k \div 2) + 1]
        part(k) == IF k % 2 = 0 THEN word(k) % 256 ELSE (word(k) \div 256) % 256
        val(k) == XorByte(Byte(complete_bitmap, k), part(k))
        touched == {2 * (i - 1) : i \in {n \in 1..(BITMAP_SIZE \div 2) :
                                            compressed_bitmap[n] # 0}}
        cand == DOMAIN complete_bitmap \cup touched \cup {k + 1 : k \in touched}
    IN [k \in {c \in cand : val(c) # 0} |-> val(k)]

decompress_bitmap(complete_bitmap, compressed_bitmap, is_compressed) ==
    IF ~is_compressed
    THEN decompress_dense(complete_bitmap, compressed_bitmap)
    ELSE decompress_sparse(complete_bitmap, compressed_bitmap)

-----------------------------------------------------------------------------
(* Images used as inputs *)

\* The image whose first n bit positions (0..n-1) are set.
Prefix(n) ==
    [i \in {k \in 0..(n \div 8) : k < n \div 8 \/ n % 8 # 0} |->
        IF i < n \div 8 THEN 255 ELSE 256 - Pow2(8 - (n % 8))]

\* The image with the single bit position p set.
OneBit(p) == [i \in {p \div 8} |-> Pow2(7 - (p % 8))]

-----------------------------------------------------------------------------
(* The codec on its own: compress_bitmap, then decompress_bitmap *)

CodecRefs == {ZeroBitmap, OneBit(42), OneBit(59999), Prefix(3)}
CodecImages ==
    {Prefix(n) : n \in {0, 1, 2, 10, 466, 467, 468, 469, 470, 4000}}

CodecIdle == [pc |-> "off", complete_bitmap |-> ZeroBitmap,
              original_bitmap |-> ZeroBitmap, compressed_bitmap |-> NULLBUF,
              is_compressed |-> FALSE, bitmap_result |-> ZeroBitmap]

CtlIdle ==
    /\ head_bitmap_cnt = 9
    /\ head_bitmap_cnt_lock = 0
    /\ head_lock = 0
    /\ first_ref = NULL
    /\ refs = <<>>
    /\ bitmaps = <<>>
    /\ wr = <<>>
    /\ rd = <<>>
    /\ workload = "none"
    /\ next_csn = 0
    /\ completed = {}
    /\ fault = "none"

InitCodec ==
    /\ CtlIdle
    /\ \E R \in CodecRefs, B \in CodecImages :
          codec = [CodecIdle EXCEPT !.pc = "input", !.complete_bitmap = R,
                                    !.original_bitmap = B]

Codec_Compress ==
    /\ codec.pc = "input"
    /\ LET c == compress_bitmap(codec.original_bitmap, codec.complete_bitmap)
       IN codec' = [codec EXCEPT !.pc = "compressed",
                                 !.compressed_bitmap = c.compressed_bitmap,
                                 !.is_compressed = c.is_compressed]
    /\ UNCHANGED ctl_vars

Codec_Decompress ==
    /\ codec.pc = "compressed"
    /\ decompress_defined(codec.compressed_bitmap, codec.is_compressed)
    /\ codec' = [codec EXCEPT !.pc = "decompressed",
                              !.bitmap_result =
                                  decompress_bitmap(codec.complete_bitmap,
                                                    codec.compressed_bitmap,
                                                    codec.is_compressed)]
    /\ UNCHANGED ctl_vars

NextCodec == Codec_Compress \/ Codec_Decompress

SpecCodec == InitCodec /\ [][NextCodec]_vars

-----------------------------------------------------------------------------
(* The controller: the images the caller submits *)

\* main.cpp builds version c from version c-1 by setting one more bit
\* ("grow"); "move" submits images that do not contain their predecessors.
\* "dense" submits images far from the group's reference: version 2 is bytes
\* 2..61 all ones (480 bits, bytes 0 and 1 zero), version 3 is bit positions
\* 0..479, the others are single bits.
Workloads == {"grow", "move", "dense"}

Shifted480 == [i \in 2..61 |-> 255]

Snapshot(wl, csn) ==
    IF wl = "grow" THEN Prefix(csn)
    ELSE IF wl = "move" THEN OneBit(3 * csn + 1)
    ELSE IF csn = 0 THEN ZeroBitmap
    ELSE IF csn = 2 THEN Shifted480
    ELSE IF csn = 3 THEN Prefix(480)
    ELSE OneBit(3 * csn + 1)

\* The image the caller passes with new_csn.
original_bitmap(csn) == Snapshot(workload, csn)

\* The caller's output buffer before the call.
OutInit == OneBit(59999)

-----------------------------------------------------------------------------
(* The controller: sparse payload union *)

\* Whether union_sorted_array stays inside its two operands.
union_defined(a, b) ==
    /\ Len(a) >= 1 /\ Len(b) >= 1
    /\ Len(a) >= a[1] + 1
    /\ Len(b) >= b[1] + 1

\* The three loops of union_sorted_array: i and j index a_data and b_data,
\* out is temp[1..k-1].
RECURSIVE union_merge(_, _, _, _, _)
union_merge(a, b, i, j, out) ==
    LET a_size == a[1]
        b_size == b[1]
        ai == a[i + 2]
        bj == b[j + 2]
    IN IF i < a_size /\ j < b_size
       THEN IF ai < bj THEN union_merge(a, b, i + 1, j, Append(out, ai))
            ELSE IF ai > bj THEN union_merge(a, b, i, j + 1, Append(out, bj))
            ELSE union_merge(a, b, i + 1, j + 1, Append(out, ai))
       ELSE IF i < a_size THEN union_merge(a, b, i + 1, j, Append(out, ai))
       ELSE IF j < b_size THEN union_merge(a, b, i, j + 1, Append(out, bj))
       ELSE out

\* union_sorted_array with temp[0] taken from the two sizes instead of k - 1.
union_sorted_array_sum(a, b) ==
    <<a[1] + b[1]>> \o union_merge(a, b, 0, 0, <<>>)

\* The new contents of a.
union_sorted_array(a, b) ==
    LET merged == union_merge(a, b, 0, 0, <<>>)
    IN <<Len(merged)>> \o merged

-----------------------------------------------------------------------------
(* The controller: writers *)

Writers == {1, 2}
Readers == {1}

WriterIdle == [pc |-> "idle", new_csn |-> -1, ref |-> NULL, bitmap |-> NULL,
               start_compress_point |-> NULL, temp_csn |-> -1]

ReaderIdle == [pc |-> "idle", require_csn |-> -1, temp_refp |-> NULL,
               temp_compressed_bitmap |-> NULL, compressed_bitmap |-> NULLBUF,
               is_compressed |-> FALSE, gen |-> 0, ret |-> "none",
               bitmap_result |-> OutInit, committed |-> FALSE]

Running == fault = "none"

\* insert_null, line 230: head_bitmap_cnt_lock.lock().  The caller hands out
\* CSNs in the order of the calls (main.cpp calls insert_null under csn_lock).
InsertNull_Lock(w, max_inserts) ==
    /\ Running
    /\ wr[w].pc = "idle"
    /\ next_csn < max_inserts
    /\ head_bitmap_cnt_lock = 0
    /\ head_bitmap_cnt_lock' = w
    /\ wr' = [wr EXCEPT ![w] = [WriterIdle EXCEPT !.pc = "reserve",
                                                  !.new_csn = next_csn]]
    /\ next_csn' = next_csn + 1
    /\ UNCHANGED <<head_bitmap_cnt, head_lock, first_ref, refs, bitmaps, rd,
                   workload, completed, fault, codec>>

\* A reset that does not count the opening delta.
reset_cnt_zero == 1 - 1

\* The value head_bitmap_cnt takes when a new group is opened (line 232).
reset_cnt == 1

\* insert_null, lines 231-238
InsertNull_Reserve(w) ==
    /\ Running
    /\ wr[w].pc = "reserve"
    /\ IF head_bitmap_cnt = MAX_COMPRESS_NUM
       THEN /\ head_bitmap_cnt' = reset_cnt
            /\ wr' = [wr EXCEPT ![w].pc = "new_ref"]
       ELSE /\ head_bitmap_cnt' = head_bitmap_cnt + 1
            /\ wr' = [wr EXCEPT ![w].pc = "new_bitmap", ![w].ref = first_ref]
    /\ head_bitmap_cnt_lock' = 0
    /\ UNCHANGED <<head_lock, first_ref, refs, bitmaps, rd, workload, next_csn,
                   completed, fault, codec>>

\* A new group whose csn_range.first keeps the constructor's 0 (line 242
\* left out).
InsertNull_NewRef_NoFirst(w) ==
    /\ Running
    /\ wr[w].pc = "new_ref"
    /\ head_lock = 0
    /\ head_lock' = w
    /\ bitmaps' = Append(bitmaps,
                         [bitmap_csn |-> wr[w].new_csn, next_bitmap |-> NULL,
                          compressed_bitmap |-> <<0>>, is_compressed |-> TRUE,
                          gen |-> 0])
    /\ refs' = Append(refs,
                      [ref_lock |-> 0, bitmap_cnt |-> 1,
                       csn_range |-> <<0, wr[w].new_csn>>,
                       next_ref |-> NULL,
                       first_compressed_bitmap |-> Len(bitmaps) + 1,
                       complete_bitmap |-> original_bitmap(wr[w].new_csn)])
    /\ wr' = [wr EXCEPT ![w].pc = "push", ![w].ref = Len(refs) + 1]
    /\ UNCHANGED <<head_bitmap_cnt, head_bitmap_cnt_lock, first_ref, rd,
                   workload, next_csn, completed, fault, codec>>

\* insert_null, lines 241-256: the new group and its opening delta, then
\* head_lock.lock()
InsertNull_NewRef(w) ==
    /\ Running
    /\ wr[w].pc = "new_ref"
    /\ head_lock = 0
    /\ head_lock' = w
    /\ bitmaps' = Append(bitmaps,
                         [bitmap_csn |-> wr[w].new_csn, next_bitmap |-> NULL,
                          compressed_bitmap |-> <<0>>, is_compressed |-> TRUE,
                          gen |-> 0])
    /\ refs' = Append(refs,
                      [ref_lock |-> 0, bitmap_cnt |-> 1,
                       csn_range |-> <<wr[w].new_csn, wr[w].new_csn>>,
                       next_ref |-> NULL,
                       first_compressed_bitmap |-> Len(bitmaps) + 1,
                       complete_bitmap |-> original_bitmap(wr[w].new_csn)])
    /\ wr' = [wr EXCEPT ![w].pc = "push", ![w].ref = Len(refs) + 1]
    /\ UNCHANGED <<head_bitmap_cnt, head_bitmap_cnt_lock, first_ref, rd,
                   workload, next_csn, completed, fault, codec>>

\* insert_null, lines 257-261
InsertNull_Push(w) ==
    /\ Running
    /\ wr[w].pc = "push"
    /\ refs' = [refs EXCEPT ![wr[w].ref].next_ref = first_ref]
    /\ first_ref' = wr[w].ref
    /\ head_lock' = 0
    /\ completed' = completed \cup {wr[w].new_csn}
    /\ wr' = [wr EXCEPT ![w] = WriterIdle]
    /\ UNCHANGED <<head_bitmap_cnt, head_bitmap_cnt_lock, bitmaps, rd,
                   workload, next_csn, fault, codec>>

\* insert_null, lines 264-267 on a null now_first_ref: the captured group
\* pointer is dereferenced
InsertNull_NullRef(w) ==
    /\ Running
    /\ wr[w].pc = "new_bitmap"
    /\ wr[w].ref = NULL
    /\ fault' = "insert_null: null now_first_ref"
    /\ UNCHANGED <<head_bitmap_cnt, head_bitmap_cnt_lock, head_lock, first_ref,
                   refs, bitmaps, wr, rd, workload, next_csn, completed, codec>>

\* insert_null, lines 264-267: the placeholder, then now_first_ref->ref_lock.lock()
InsertNull_NewBitmap(w) ==
    /\ Running
    /\ wr[w].pc = "new_bitmap"
    /\ wr[w].ref # NULL
    /\ refs[wr[w].ref].ref_lock = 0
    /\ refs' = [refs EXCEPT ![wr[w].ref].ref_lock = w]
    /\ bitmaps' = Append(bitmaps,
                         [bitmap_csn |-> wr[w].new_csn, next_bitmap |-> NULL,
                          compressed_bitmap |-> NULLBUF, is_compressed |-> FALSE,
                          gen |-> 0])
    /\ wr' = [wr EXCEPT ![w].pc = "link", ![w].bitmap = Len(bitmaps) + 1]
    /\ UNCHANGED <<head_bitmap_cnt, head_bitmap_cnt_lock, head_lock, first_ref,
                   rd, workload, next_csn, completed, fault, codec>>

\* insert_null, lines 268-275
InsertNull_Link(w) ==
    /\ Running
    /\ wr[w].pc = "link"
    /\ bitmaps' = [bitmaps EXCEPT ![wr[w].bitmap].next_bitmap =
                       refs[wr[w].ref].first_compressed_bitmap]
    /\ refs' = [refs EXCEPT ![wr[w].ref].first_compressed_bitmap = wr[w].bitmap,
                            ![wr[w].ref].ref_lock = 0]
    /\ wr' = [wr EXCEPT ![w].pc = "content"]
    /\ UNCHANGED <<head_bitmap_cnt, head_bitmap_cnt_lock, head_lock, first_ref,
                   rd, workload, next_csn, completed, fault, codec>>

\* insert_bitmap_content, lines 284-287: compress_bitmap writes
\* bitmap->is_compressed through its reference parameter
Content_Compress(w) ==
    /\ Running
    /\ wr[w].pc = "content"
    /\ bitmaps' = [bitmaps EXCEPT ![wr[w].bitmap].is_compressed =
                       compress_bitmap(original_bitmap(wr[w].new_csn),
                                       refs[wr[w].ref].complete_bitmap).is_compressed]
    /\ wr' = [wr EXCEPT ![w].pc = "install"]
    /\ UNCHANGED <<head_bitmap_cnt, head_bitmap_cnt_lock, head_lock, first_ref,
                   refs, rd, workload, next_csn, completed, fault, codec>>

\* insert_bitmap_content, line 284: the returned buffer is stored in
\* bitmap->compressed_bitmap, before ref_lock is taken
Content_Install(w) ==
    /\ Running
    /\ wr[w].pc = "install"
    /\ bitmaps' = [bitmaps EXCEPT ![wr[w].bitmap].compressed_bitmap =
                       compress_bitmap(original_bitmap(wr[w].new_csn),
                                       refs[wr[w].ref].complete_bitmap).compressed_bitmap]
    /\ wr' = [wr EXCEPT ![w].pc = "lock"]
    /\ UNCHANGED <<head_bitmap_cnt, head_bitmap_cnt_lock, head_lock, first_ref,
                   refs, rd, workload, next_csn, completed, fault, codec>>

\* insert_bitmap_content, lines 289-290
Content_Lock(w) ==
    /\ Running
    /\ wr[w].pc = "lock"
    /\ refs[wr[w].ref].ref_lock = 0
    /\ refs' = [refs EXCEPT ![wr[w].ref].ref_lock = w,
                            ![wr[w].ref].bitmap_cnt = @ + 1]
    /\ wr' = [wr EXCEPT ![w].pc = "walk"]
    /\ UNCHANGED <<head_bitmap_cnt, head_bitmap_cnt_lock, head_lock, first_ref,
                   bitmaps, rd, workload, next_csn, completed, fault, codec>>

\* insert_bitmap_content, the loop of lines 296-305
RECURSIVE find_start(_, _, _, _)
find_start(temp_bmp, bitmap, start_compress_point, temp_csn) ==
    IF temp_bmp = NULL \/ temp_bmp = bitmap
    THEN [start_compress_point |-> start_compress_point, temp_csn |-> temp_csn]
    ELSE IF bitmaps[temp_bmp].compressed_bitmap = NULLBUF
    THEN find_start(bitmaps[temp_bmp].next_bitmap, bitmap, NULL, -1)
    ELSE find_start(bitmaps[temp_bmp].next_bitmap, bitmap, temp_bmp,
                    bitmaps[temp_bmp].bitmap_csn)

\* insert_bitmap_content, lines 292-305
Content_Walk(w) ==
    /\ Running
    /\ wr[w].pc = "walk"
    /\ LET found == find_start(refs[wr[w].ref].first_compressed_bitmap,
                               wr[w].bitmap, NULL, -1)
       IN wr' = [wr EXCEPT ![w].pc = "union",
                           ![w].start_compress_point = found.start_compress_point,
                           ![w].temp_csn = found.temp_csn]
    /\ UNCHANGED <<head_bitmap_cnt, head_bitmap_cnt_lock, head_lock, first_ref,
                   refs, bitmaps, rd, workload, next_csn, completed, fault, codec>>

\* A union loop that does not stop at the inserted delta.
RECURSIVE union_targets_all(_, _)
union_targets_all(temp_bmp, bitmap) ==
    IF temp_bmp = NULL THEN <<>>
    ELSE <<temp_bmp>> \o union_targets_all(bitmaps[temp_bmp].next_bitmap, bitmap)

\* The deltas the loop of lines 309-313 visits, in order.
RECURSIVE union_targets(_, _)
union_targets(temp_bmp, bitmap) ==
    IF temp_bmp = NULL \/ temp_bmp = bitmap THEN <<>>
    ELSE <<temp_bmp>> \o union_targets(bitmaps[temp_bmp].next_bitmap, bitmap)

\* insert_bitmap_content, lines 307-314, when every union_sorted_array call
\* stays inside its buffers
Content_Union(w) ==
    /\ Running
    /\ wr[w].pc = "union"
    /\ LET targets == IF wr[w].start_compress_point = NULL THEN <<>>
                      ELSE union_targets(wr[w].start_compress_point, wr[w].bitmap)
           hit == {targets[k] : k \in 1..Len(targets)}
           b == bitmaps[wr[w].bitmap].compressed_bitmap
       IN /\ \A t \in hit : union_defined(bitmaps[t].compressed_bitmap, b)
          /\ bitmaps' = [n \in 1..Len(bitmaps) |->
                           IF n \in hit
                           THEN [bitmaps[n] EXCEPT
                                   !.compressed_bitmap = union_sorted_array(@, b),
                                   !.gen = @ + 1]
                           ELSE bitmaps[n]]
    /\ wr' = [wr EXCEPT ![w].pc = "range"]
    /\ UNCHANGED <<head_bitmap_cnt, head_bitmap_cnt_lock, head_lock, first_ref,
                   refs, rd, workload, next_csn, completed, fault, codec>>

\* insert_bitmap_content, lines 307-314, when a union_sorted_array call reads
\* past the end of a buffer (an operand that is not a sparse payload)
Content_UnionFault(w) ==
    /\ Running
    /\ wr[w].pc = "union"
    /\ wr[w].start_compress_point # NULL
    /\ LET targets == union_targets(wr[w].start_compress_point, wr[w].bitmap)
           b == bitmaps[wr[w].bitmap].compressed_bitmap
       IN \E k \in 1..Len(targets) :
              ~union_defined(bitmaps[targets[k]].compressed_bitmap, b)
    /\ fault' = "union_sorted_array: read past a buffer"
    /\ UNCHANGED <<head_bitmap_cnt, head_bitmap_cnt_lock, head_lock, first_ref,
                   refs, bitmaps, wr, rd, workload, next_csn, completed, codec>>

\* The new csn_range.second of lines 316-320
new_second_nomax(second, temp_csn, bitmap_csn) ==
    IF temp_csn = -1 THEN bitmap_csn ELSE temp_csn

new_second(second, temp_csn, bitmap_csn) ==
    LET t == IF temp_csn = -1 THEN bitmap_csn ELSE temp_csn
    IN IF second >= t THEN second ELSE t

\* insert_bitmap_content, lines 316-323
Content_Range(w) ==
    /\ Running
    /\ wr[w].pc = "range"
    /\ refs' = [refs EXCEPT
                  ![wr[w].ref].csn_range =
                      <<@[1], new_second(@[2], wr[w].temp_csn,
                                         bitmaps[wr[w].bitmap].bitmap_csn)>>,
                  ![wr[w].ref].ref_lock = 0]
    /\ completed' = completed \cup {wr[w].new_csn}
    /\ wr' = [wr EXCEPT ![w] = WriterIdle]
    /\ UNCHANGED <<head_bitmap_cnt, head_bitmap_cnt_lock, head_lock, first_ref,
                   bitmaps, rd, workload, next_csn, fault, codec>>

WriterStep(w, max_inserts) ==
    \/ InsertNull_Lock(w, max_inserts)
    \/ InsertNull_Reserve(w)
    \/ InsertNull_NewRef(w)
    \/ InsertNull_Push(w)
    \/ InsertNull_NullRef(w)
    \/ InsertNull_NewBitmap(w)
    \/ InsertNull_Link(w)
    \/ Content_Compress(w)
    \/ Content_Install(w)
    \/ Content_Lock(w)
    \/ Content_Walk(w)
    \/ Content_Union(w)
    \/ Content_UnionFault(w)
    \/ Content_Range(w)

-----------------------------------------------------------------------------
(* The controller: readers *)

\* The CSNs a reader may ask for: one below every CSN, every CSN handed out
\* so far, and the next one, which no insert has used yet.
ReadCsns == (-1)..next_csn

\* get_bitmap, line 190
Get_Call(r) ==
    /\ Running
    /\ rd[r].pc = "idle"
    /\ \E c \in ReadCsns :
          rd' = [rd EXCEPT ![r] = [ReaderIdle EXCEPT
                                      !.pc = "groups",
                                      !.require_csn = c,
                                      !.temp_refp = first_ref,
                                      !.committed = c \in completed]]
    /\ UNCHANGED <<head_bitmap_cnt, head_bitmap_cnt_lock, head_lock, first_ref,
                   refs, bitmaps, wr, workload, next_csn, completed, fault, codec>>

\* get_bitmap, the loop of lines 192-200: the group the walk stops at, NULL
\* when it runs off the chain, -1 when line 196 returns false.
RECURSIVE find_ref(_, _)
find_ref(temp_refp, require_csn) ==
    IF temp_refp = NULL THEN NULL
    ELSE IF require_csn < refs[temp_refp].csn_range[1]
    THEN find_ref(refs[temp_refp].next_ref, require_csn)
    ELSE IF require_csn > refs[temp_refp].csn_range[2] THEN -1
    ELSE temp_refp

\* get_bitmap, lines 192-204
Get_FindRef(r) ==
    /\ Running
    /\ rd[r].pc = "groups"
    /\ LET g == find_ref(rd[r].temp_refp, rd[r].require_csn)
       IN IF g = NULL \/ g = -1
          THEN rd' = [rd EXCEPT ![r].pc = "idle", ![r].ret = "false",
                                ![r].temp_refp = NULL]
          ELSE rd' = [rd EXCEPT ![r].pc = "deltas", ![r].temp_refp = g,
                                ![r].temp_compressed_bitmap =
                                    refs[g].first_compressed_bitmap]
    /\ UNCHANGED <<head_bitmap_cnt, head_bitmap_cnt_lock, head_lock, first_ref,
                   refs, bitmaps, wr, workload, next_csn, completed, fault, codec>>

\* A match on any delta at or above the requested CSN.
csn_matches_le(require_csn, bitmap_csn) == require_csn <= bitmap_csn

\* Whether a delta of this CSN matches the request (line 207)
csn_matches(require_csn, bitmap_csn) == require_csn = bitmap_csn

\* get_bitmap, the loop of lines 206-215: the delta whose CSN matches, NULL
\* when the chain ends.
RECURSIVE find_bitmap(_, _)
find_bitmap(temp_compressed_bitmap, require_csn) ==
    IF temp_compressed_bitmap = NULL THEN NULL
    ELSE IF csn_matches(require_csn, bitmaps[temp_compressed_bitmap].bitmap_csn)
    THEN temp_compressed_bitmap
    ELSE find_bitmap(bitmaps[temp_compressed_bitmap].next_bitmap, require_csn)

\* get_bitmap, lines 206-216; at a match the arguments of decompress_bitmap
\* (lines 209-211) are read from the delta.
Get_FindBitmap(r) ==
    /\ Running
    /\ rd[r].pc = "deltas"
    /\ LET n == find_bitmap(rd[r].temp_compressed_bitmap, rd[r].require_csn)
       IN IF n = NULL
          THEN rd' = [rd EXCEPT ![r].pc = "idle", ![r].ret = "false",
                                ![r].temp_refp = NULL,
                                ![r].temp_compressed_bitmap = NULL]
          ELSE rd' = [rd EXCEPT ![r].pc = "decode",
                                ![r].temp_compressed_bitmap = n,
                                ![r].compressed_bitmap = bitmaps[n].compressed_bitmap,
                                ![r].is_compressed = bitmaps[n].is_compressed,
                                ![r].gen = bitmaps[n].gen]
    /\ UNCHANGED <<head_bitmap_cnt, head_bitmap_cnt_lock, head_lock, first_ref,
                   refs, bitmaps, wr, workload, next_csn, completed, fault, codec>>

\* The buffer the reader's pointer refers to is still allocated.
BufferLive(r) == bitmaps[rd[r].temp_compressed_bitmap].gen = rd[r].gen

\* get_bitmap, lines 208-212 -> decompress_bitmap, lines 168-183
Get_Decode(r) ==
    /\ Running
    /\ rd[r].pc = "decode"
    /\ rd[r].compressed_bitmap # NULLBUF
    /\ decompress_defined(rd[r].compressed_bitmap, rd[r].is_compressed)
    /\ rd' = [rd EXCEPT ![r].pc = "idle", ![r].ret = "true",
                        ![r].bitmap_result =
                            decompress_bitmap(refs[rd[r].temp_refp].complete_bitmap,
                                              rd[r].compressed_bitmap,
                                              rd[r].is_compressed)]
    /\ UNCHANGED <<head_bitmap_cnt, head_bitmap_cnt_lock, head_lock, first_ref,
                   refs, bitmaps, wr, workload, next_csn, completed, fault, codec>>

\* decompress_bitmap on a null payload pointer, on a payload buffer shorter
\* than the encoding tag says, or on a buffer union_sorted_array has freed
Get_DecodeFault(r) ==
    /\ Running
    /\ rd[r].pc = "decode"
    /\ \/ /\ rd[r].compressed_bitmap = NULLBUF
          /\ fault' = "decompress_bitmap: null payload"
       \/ /\ rd[r].compressed_bitmap # NULLBUF
          /\ ~decompress_defined(rd[r].compressed_bitmap, rd[r].is_compressed)
          /\ fault' = "decompress_bitmap: read past the payload"
       \/ /\ rd[r].compressed_bitmap # NULLBUF
          /\ ~BufferLive(r)
          /\ fault' = "decompress_bitmap: freed payload"
    /\ UNCHANGED <<head_bitmap_cnt, head_bitmap_cnt_lock, head_lock, first_ref,
                   refs, bitmaps, wr, rd, workload, next_csn, completed, codec>>

ReaderStep(r) ==
    \/ Get_Call(r)
    \/ Get_FindRef(r)
    \/ Get_FindBitmap(r)
    \/ Get_Decode(r)
    \/ Get_DecodeFault(r)

-----------------------------------------------------------------------------
(* Specifications *)

\* A freshly constructed controller (lines 59-63, 327-330) and idle threads.
InitController ==
    /\ head_bitmap_cnt = 9
    /\ head_bitmap_cnt_lock = 0
    /\ head_lock = 0
    /\ first_ref = NULL
    /\ refs = <<>>
    /\ bitmaps = <<>>
    /\ next_csn = 0
    /\ completed = {}
    /\ fault = "none"
    /\ codec = CodecIdle

\* Two writer threads and one reader thread, as main.cpp runs them.
Init ==
    /\ InitController
    /\ wr = [w \in Writers |-> WriterIdle]
    /\ rd = [r \in Readers |-> ReaderIdle]
    /\ workload \in Workloads

Next ==
    \/ \E w \in Writers : WriterStep(w, MaxInserts)
    \/ \E r \in Readers : ReaderStep(r)

Spec == Init /\ [][Next]_vars

\* The caller keeps the handle insert_null returned and makes its
\* insert_bitmap_content call later (or never: a writer that stops after the
\* placeholder is linked); the thread goes on to its next insert_null.
Content_Defer(w) ==
    /\ Running
    /\ wr[w].pc = "content"
    /\ wr' = [wr EXCEPT ![w] = WriterIdle]
    /\ UNCHANGED <<head_bitmap_cnt, head_bitmap_cnt_lock, head_lock, first_ref,
                   refs, bitmaps, rd, workload, next_csn, completed, fault, codec>>

\* Two threads calling insert_null concurrently, long enough to fill a group
\* and open the next; every insert_bitmap_content call is deferred.
InitInsertNull ==
    /\ InitController
    /\ wr = [w \in Writers |-> WriterIdle]
    /\ rd = <<>>
    /\ workload \in Workloads

NextInsertNull ==
    \E w \in Writers :
        \/ InsertNull_Lock(w, MaxNullInserts)
        \/ InsertNull_Reserve(w)
        \/ InsertNull_NewRef(w)
        \/ InsertNull_Push(w)
        \/ InsertNull_NullRef(w)
        \/ InsertNull_NewBitmap(w)
        \/ InsertNull_Link(w)
        \/ Content_Defer(w)

SpecInsertNull == InitInsertNull /\ [][NextInsertNull]_vars

\* One thread inserting one version at a time (main.cpp with a single insert
\* thread): insert_null, then insert_bitmap_content on the returned handle.
SerialWriter == 1

InitSerial ==
    /\ InitController
    /\ wr = [w \in {SerialWriter} |-> WriterIdle]
    /\ rd = <<>>
    /\ workload \in Workloads

NextSerial ==
    \/ InsertNull_Lock(SerialWriter, MaxSerial)
    \/ InsertNull_Reserve(SerialWriter)
    \/ InsertNull_NewRef(SerialWriter)
    \/ InsertNull_Push(SerialWriter)
    \/ InsertNull_NewBitmap(SerialWriter)
    \/ InsertNull_Link(SerialWriter)
    \/ Content_Compress(SerialWriter)
    \/ Content_Install(SerialWriter)
    \/ Content_Lock(SerialWriter)
    \/ Content_Walk(SerialWriter)
    \/ Content_Union(SerialWriter)
    \/ Content_Range(SerialWriter)

SpecSerial == InitSerial /\ [][NextSerial]_vars

\* The two steps NextSerial leaves out are never enabled with one writer.
SerialNoFault ==
    /\ ~ENABLED InsertNull_NullRef(SerialWriter)
    /\ ~ENABLED Content_UnionFault(SerialWriter)

-----------------------------------------------------------------------------
(* Claims about the codec, checked under SpecCodec *)

\* The number of bit positions at which two images differ, counted on the
\* images themselves.
DiffCount(a, b) ==
    Cardinality((SetBits(a) \ SetBits(b)) \cup (SetBits(b) \ SetBits(a)))

CodecEncoded == codec.pc \in {"compressed", "decompressed"}

CodecIsDense ==
    /\ ~codec.is_compressed
    /\ Len(codec.compressed_bitmap) = BITMAP_SIZE \div 2

CodecIsSparse ==
    /\ codec.is_compressed
    /\ Len(codec.compressed_bitmap) = codec.compressed_bitmap[1] + 1

\* C3: codec round trip: for every reference R and image B,
\* decompress_bitmap(R, compress_bitmap(B, R)) = B, with the sparse and with
\* the dense encoding.
C3_RoundTrip ==
    codec.pc = "decompressed" => codec.bitmap_result = codec.original_bitmap

\* What the code does instead on a dense payload: the result is R XOR B.
C3_DenseGivesXor ==
    (codec.pc = "decompressed" /\ ~codec.is_compressed)
        => codec.bitmap_result =
               xor_function(codec.complete_bitmap, codec.original_bitmap)

\* The sparse half of C3 does hold.
C3_SparseRoundTrip ==
    (codec.pc = "decompressed" /\ codec.is_compressed)
        => codec.bitmap_result = codec.original_bitmap

\* C4 as stated: dense iff at least 469 bits differ (468 or fewer: sparse).
C4_DenseIffAtLeast469 ==
    CodecEncoded =>
        /\ DiffCount(codec.original_bitmap, codec.complete_bitmap) >= 469
               <=> CodecIsDense
        /\ DiffCount(codec.original_bitmap, codec.complete_bitmap) <= 468
               <=> CodecIsSparse

\* C4 as amended: compress_bitmap emits the dense encoding iff the number of
\* set bits of B XOR R is at least BITMAP_SIZE / 16 in integer division,
\* which is 468 for BITMAP_SIZE = 7500; with 467 or fewer it emits the
\* sparse encoding, listing exactly the differing positions.
C4_DenseIffAtLeast468 ==
    CodecEncoded =>
        /\ DiffCount(codec.original_bitmap, codec.complete_bitmap) >= 468
               <=> CodecIsDense
        /\ DiffCount(codec.original_bitmap, codec.complete_bitmap) <= 467
               <=> CodecIsSparse
        /\ CodecIsSparse =>
               codec.compressed_bitmap[1] =
                   DiffCount(codec.original_bitmap, codec.complete_bitmap)

C4_Witness ==
    /\ CodecEncoded
    /\ DiffCount(codec.original_bitmap, codec.complete_bitmap) = 468
    /\ CodecIsDense

-----------------------------------------------------------------------------
(* The store as the claims speak of it *)

\* The deltas of a chain, newest first, from temp_bmp along next_bitmap.
RECURSIVE ChainFrom(_)
ChainFrom(temp_bmp) ==
    IF temp_bmp = NULL THEN <<>>
    ELSE <<temp_bmp>> \o ChainFrom(bitmaps[temp_bmp].next_bitmap)

Chain(g) == ChainFrom(refs[g].first_compressed_bitmap)

ChainSet(g) == {Chain(g)[k] : k \in 1..Len(Chain(g))}

\* The groups reached from temp_refp along next_ref.
RECURSIVE GroupsFrom(_)
GroupsFrom(temp_refp) ==
    IF temp_refp = NULL THEN {}
    ELSE {temp_refp} \cup GroupsFrom(refs[temp_refp].next_ref)

LinkedGroups == GroupsFrom(first_ref)

AllGroups == 1..Len(refs)

\* A delta with this CSN is in the store.
Stored(csn) ==
    \E g \in LinkedGroups : \E n \in ChainSet(g) : bitmaps[n].bitmap_csn = csn

IsPlaceholder(n) == bitmaps[n].compressed_bitmap = NULLBUF

\* Delta n of group g decodes to the image submitted for its CSN.
DecodesToSubmitted(g, n) ==
    /\ ~IsPlaceholder(n)
    /\ decompress_defined(bitmaps[n].compressed_bitmap, bitmaps[n].is_compressed)
    /\ decompress_bitmap(refs[g].complete_bitmap, bitmaps[n].compressed_bitmap,
                         bitmaps[n].is_compressed)
           = original_bitmap(bitmaps[n].bitmap_csn)

ReaderReturned(r) == rd[r].pc = "idle" /\ rd[r].ret # "none"

-----------------------------------------------------------------------------
(* Claims about the controller *)

\* C1: reconstruction: once the insert of CSN c with image B has completed,
\* every later get_bitmap(c) returns true and fills the output with exactly B,
\* for arbitrary images.
C1_Reconstruction ==
    \A r \in DOMAIN rd :
        (ReaderReturned(r) /\ rd[r].committed)
            => /\ rd[r].ret = "true"
               /\ rd[r].bitmap_result = original_bitmap(rd[r].require_csn)

\* C2: placeholder invisibility: get_bitmap never hands a delta whose payload
\* is not installed to decompress_bitmap (it returns false instead).
C2_PlaceholderInvisible ==
    \A r \in DOMAIN rd :
        rd[r].pc = "decode" => rd[r].compressed_bitmap # NULLBUF

\* C5: group cap: no group's delta chain holds more than MAX_COMPRESS_NUM
\* deltas (placeholders included) and no bitmap_cnt exceeds MAX_COMPRESS_NUM.
C5_GroupCap ==
    \A g \in AllGroups :
        /\ Len(Chain(g)) <= MAX_COMPRESS_NUM
        /\ refs[g].bitmap_cnt <= MAX_COMPRESS_NUM

\* C6: monotone range: across every step, no group disappears, every
\* group's csn_range.first is unchanged and its csn_range.second does not
\* decrease.
C6_MonotoneRange ==
    [][/\ Len(refs') >= Len(refs)
       /\ \A g \in AllGroups :
            /\ refs'[g].csn_range[1] = refs[g].csn_range[1]
            /\ refs'[g].csn_range[2] >= refs[g].csn_range[2]]_vars

\* csn_range.second has advanced past csn_range.first in a group some delta
\* of which is still a placeholder.
C6_Witness ==
    \E g \in AllGroups :
        /\ refs[g].csn_range[2] > refs[g].csn_range[1] + 1
        /\ \E n \in ChainSet(g) : IsPlaceholder(n)

\* The position of delta n in the chain of group g (1: the head).
ChainIndex(g, n) == CHOOSE k \in 1..Len(Chain(g)) : Chain(g)[k] = n

\* The chain positions strictly between positions i and j.
Between(i, j) == {k \in 1..(IF i > j THEN i ELSE j) : (i < k /\ k < j) \/ (j < k /\ k < i)}

\* The deltas of w's group below w's delta p in the chain that are
\* materialized and have no placeholder between p and themselves.
BelowRun(w) ==
    LET c == Chain(wr[w].ref)
        ip == ChainIndex(wr[w].ref, wr[w].bitmap)
    IN {c[k] : k \in {j \in (ip + 1)..Len(c) :
                         \A i \in (ip + 1)..j : ~IsPlaceholder(c[i])}}

\* The deltas of w's group with a CSN below that of w's delta p that are
\* materialized and have no placeholder between p and themselves.
OlderRun(w) ==
    LET c == Chain(wr[w].ref)
        ip == ChainIndex(wr[w].ref, wr[w].bitmap)
    IN {c[k] : k \in {j \in 1..Len(c) :
                         /\ bitmaps[c[j]].bitmap_csn < bitmaps[wr[w].bitmap].bitmap_csn
                         /\ ~IsPlaceholder(c[j])
                         /\ \A i \in Between(ip, j) : ~IsPlaceholder(c[i])}}

InContent(w) == wr[w].pc \in {"content", "install", "lock", "walk", "union", "range"}

\* C7: propagation does not regress older deltas: no step of
\* insert_bitmap_content for p changes what a materialized delta d of the
\* group with d.csn < p.csn and no placeholder between p and d decodes to,
\* when d decoded to the image submitted for d.csn.
C7_NoRegression ==
    [][\A w \in DOMAIN wr :
         (InContent(w) /\ wr'[w] # wr[w])
            => \A g \in {wr[w].ref} : \A d \in OlderRun(w) :
                 DecodesToSubmitted(g, d) => DecodesToSubmitted(g, d)']_vars

\* The part of C7 that holds: no step of insert_bitmap_content for p changes
\* what a materialized delta below p in the chain decodes to.
C7_NoRegressionBelow ==
    [][\A w \in DOMAIN wr :
         (InContent(w) /\ wr'[w] # wr[w])
            => \A g \in {wr[w].ref} : \A d \in BelowRun(w) :
                 DecodesToSubmitted(g, d) => DecodesToSubmitted(g, d)']_vars

\* C8: not-found: get_bitmap(r) returns true only if a delta with CSN r is in
\* the store; it hands a delta to decompress_bitmap only for such an r, and
\* then a delta whose bitmap_csn is r; for an r that is not in the store it
\* returns false; and when it returns false the output buffer is as the
\* caller passed it.
C8_NotFound ==
    \A r \in DOMAIN rd :
        /\ rd[r].ret = "true" => Stored(rd[r].require_csn)
        /\ rd[r].pc = "decode"
              => /\ Stored(rd[r].require_csn)
                 /\ bitmaps[rd[r].temp_compressed_bitmap].bitmap_csn
                        = rd[r].require_csn
        /\ (ReaderReturned(r) /\ ~Stored(rd[r].require_csn)) => rd[r].ret = "false"
        /\ rd[r].ret = "false" => rd[r].bitmap_result = OutInit
        /\ rd[r].pc # "idle" => rd[r].bitmap_result = OutInit

\* get_bitmap has returned false for a CSN that no delta of a non-empty
\* store carries.
C8_Witness ==
    \E r \in DOMAIN rd :
        /\ ReaderReturned(r) /\ rd[r].ret = "false"
        /\ first_ref # NULL
        /\ rd[r].require_csn >= 0
        /\ ~Stored(rd[r].require_csn)
        /\ \E c \in completed : c > 0

\* The steps by which get_bitmap proceeds to its return.
ReaderProgress(r) == Get_FindRef(r) \/ Get_FindBitmap(r) \/ Get_Decode(r)

\* C9: lock-free reads: whatever locks the writers hold, a reader inside
\* get_bitmap can take its next step, and that step leads to the return of
\* get_bitmap.
C9_LockFreeReads ==
    \A r \in DOMAIN rd :
        (Running /\ rd[r].pc # "idle") => ENABLED ReaderProgress(r)

\* The part of C9 that holds: a reader inside get_bitmap always has a step
\* (its return or its fault), whoever holds head_bitmap_cnt_lock, head_lock
\* or a ref_lock.
C9_NeverWaits ==
    \A r \in DOMAIN rd :
        (Running /\ rd[r].pc # "idle") => ENABLED ReaderStep(r)

\* The part of C9 that holds: no step of a reader changes a lock.
C9_TakesNoLock ==
    [][(rd' # rd) =>
          /\ head_bitmap_cnt_lock' = head_bitmap_cnt_lock
          /\ head_lock' = head_lock
          /\ \A g \in AllGroups : refs'[g].ref_lock = refs[g].ref_lock]_vars

\* The group insert k of a serial run belongs to.
SerialGroup(k) == (k \div MAX_COMPRESS_NUM) + 1

\* C10: group roll-over under serial insertion: insert k (CSN k) opens a new
\* group iff k mod 9 = 0 and otherwise joins the current head group; each
\* opened group has its opener's image as reference, its opener's CSN as
\* csn_range.first and the previous head as next_ref.
C10_SerialRollOver ==
    /\ \A w \in DOMAIN wr :
          /\ wr[w].pc \in {"new_ref", "push"}
                => wr[w].new_csn % MAX_COMPRESS_NUM = 0
          /\ wr[w].pc \in {"new_bitmap", "link", "content"}
                => /\ wr[w].new_csn % MAX_COMPRESS_NUM # 0
                   /\ wr[w].ref = first_ref
                   /\ wr[w].ref = SerialGroup(wr[w].new_csn)
    /\ \A g \in AllGroups :
          /\ refs[g].csn_range[1] = MAX_COMPRESS_NUM * (g - 1)
          /\ refs[g].complete_bitmap = original_bitmap(refs[g].csn_range[1])
          /\ \A n \in ChainSet(g) : SerialGroup(bitmaps[n].bitmap_csn) = g
          /\ bitmaps[Chain(g)[Len(Chain(g))]].bitmap_csn = refs[g].csn_range[1]
    /\ \A g \in LinkedGroups : refs[g].next_ref = g - 1
    /\ \A c \in completed :
          /\ SerialGroup(c) \in LinkedGroups
          /\ \E n \in ChainSet(SerialGroup(c)) : bitmaps[n].bitmap_csn = c

\* Two groups are full and a third has been opened on top of them.
C10_Witness ==
    /\ Len(refs) = 3
    /\ first_ref = 3
    /\ refs[3].next_ref = 2
    /\ Len(Chain(1)) = MAX_COMPRESS_NUM
    /\ Len(Chain(2)) = MAX_COMPRESS_NUM

-----------------------------------------------------------------------------
(* Allocation failure inside insert_bitmap_content *)

\* A payload pointer whose buffer has been deleted and not replaced.  No
\* action reads through it: the group's ref_lock is never released after the
\* failure that leaves it behind.
FREEDBUF == <<-1>>

\* insert_bitmap_content, line 284: a new[] inside compress_bitmap throws
\* std::bad_alloc, at line 119 (pc "content", nothing written yet) or at
\* line 135 / 145 (pc "install", is_compressed already written).  The
\* exception leaves insert_bitmap_content before line 284 assigns.
Content_CompressAllocFail(w) ==
    /\ Running
    /\ wr[w].pc \in {"content", "install"}
    /\ wr' = [wr EXCEPT ![w] = WriterIdle]
    /\ UNCHANGED <<head_bitmap_cnt, head_bitmap_cnt_lock, head_lock, first_ref,
                   refs, bitmaps, rd, workload, next_csn, completed, fault, codec>>

\* insert_bitmap_content, lines 309-313: a new[] inside union_sorted_array
\* throws std::bad_alloc at the k-th delta of the loop, at line 86 (the
\* delta is untouched) or at line 105 (a has been deleted at line 104).  The
\* exception leaves insert_bitmap_content past lines 316-322.
Content_UnionAllocFail(w) ==
    /\ Running
    /\ wr[w].pc = "union"
    /\ wr[w].start_compress_point # NULL
    /\ LET targets == union_targets(wr[w].start_compress_point, wr[w].bitmap)
           b == bitmaps[wr[w].bitmap].compressed_bitmap
       IN \E k \in 1..Len(targets) : \E line \in {86, 105} :
            /\ \A i \in 1..k : union_defined(bitmaps[targets[i]].compressed_bitmap, b)
            /\ bitmaps' = [n \in 1..Len(bitmaps) |->
                             IF \E i \in 1..(k - 1) : targets[i] = n
                             THEN [bitmaps[n] EXCEPT
                                     !.compressed_bitmap = union_sorted_array(@, b),
                                     !.gen = @ + 1]
                             ELSE IF targets[k] = n /\ line = 105
                             THEN [bitmaps[n] EXCEPT
                                     !.compressed_bitmap = FREEDBUF,
                                     !.gen = @ + 1]
                             ELSE bitmaps[n]]
    /\ wr' = [wr EXCEPT ![w] = WriterIdle]
    /\ UNCHANGED <<head_bitmap_cnt, head_bitmap_cnt_lock, head_lock, first_ref,
                   refs, rd, workload, next_csn, completed, fault, codec>>

Content_AllocFail(w) == Content_CompressAllocFail(w) \/ Content_UnionAllocFail(w)

InitAlloc ==
    /\ InitController
    /\ wr = [w \in Writers |-> WriterIdle]
    /\ rd = <<>>
    /\ workload \in Workloads

NextAlloc ==
    \E w \in Writers :
        \/ WriterStep(w, MaxInserts)
        \/ Content_CompressAllocFail(w)
        \/ Content_UnionAllocFail(w)

SpecAlloc == InitAlloc /\ [][NextAlloc]_vars

IsFreed(n) == bitmaps[n].compressed_bitmap = FREEDBUF

\* Delta n of group g is a placeholder or decodes to its submitted image.
Consistent(g, n) ==
    IsPlaceholder(n) \/ (~IsFreed(n) /\ DecodesToSubmitted(g, n))

\* C11: allocation failure leaves the store consistent: when a new[] fails
\* inside compress_bitmap or union_sorted_array during
\* insert_bitmap_content of writer w on group g, then after the failure g's
\* ref_lock is not held by w, no delta's payload points to freed memory, and
\* every delta of g that was a placeholder or decoded to its submitted image
\* is still one or the other.
C11_AllocFailureConsistent ==
    [][\A w \in DOMAIN wr : \A g \in {wr[w].ref} :
          Content_AllocFail(w)
             => /\ refs'[g].ref_lock # w
                /\ \A n \in 1..Len(bitmaps) : ~IsFreed(n)'
                /\ \A n \in ChainSet(g) : Consistent(g, n) => Consistent(g, n)']_vars

\* The part of C11 that holds: a failure inside compress_bitmap leaves no
\* lock held, frees no payload and leaves every delta as it was.
C11_CompressFailureConsistent ==
    [][\A w \in DOMAIN wr : \A g \in {wr[w].ref} : \A p \in {wr[w].bitmap} :
          Content_CompressAllocFail(w)
             => /\ refs'[g].ref_lock # w
                /\ \A n \in 1..Len(bitmaps) : IsFreed(n)' => IsFreed(n)
                /\ \A n \in ChainSet(g) : Consistent(g, n) => Consistent(g, n)'
                /\ IsPlaceholder(p)']_vars

-----------------------------------------------------------------------------
(* Claims about the shape of the store *)

\* C12: hi never passes a placeholder: no placeholder delta of a group has a
\* CSN at or below the group's csn_range.second.
C12_HiBelowPlaceholders ==
    \A g \in AllGroups : \A n \in ChainSet(g) :
        IsPlaceholder(n) => bitmaps[n].bitmap_csn > refs[g].csn_range[2]

\* The CSN of the most recent opener at or before CSN c in reservation
\* order: head_bitmap_cnt starts at MAX_COMPRESS_NUM and CSNs follow the
\* order of reservation, so every MAX_COMPRESS_NUM-th reservation opens.
OpenerBefore(c) == c - (c % MAX_COMPRESS_NUM)

\* Reservation makes exactly the calls whose CSN is a multiple of
\* MAX_COMPRESS_NUM openers.
OpenerEveryNinth ==
    \A w \in DOMAIN wr :
        /\ wr[w].pc \in {"new_ref", "push"} => wr[w].new_csn % MAX_COMPRESS_NUM = 0
        /\ wr[w].pc \in {"new_bitmap", "link", "content"}
              => wr[w].new_csn % MAX_COMPRESS_NUM # 0

\* C13: non-opener routing: every non-opener insert_null captures a non-null
\* group, the one opened by the most recent opener before it in reservation
\* order, and every delta is linked into that group.
C13_NonOpenerRouting ==
    /\ \A w \in DOMAIN wr :
          wr[w].pc \in {"new_bitmap", "link", "content"}
             => /\ wr[w].ref # NULL
                /\ refs[wr[w].ref].csn_range[1] = OpenerBefore(wr[w].new_csn)
    /\ \A g \in AllGroups : \A n \in ChainSet(g) :
          refs[g].csn_range[1] = OpenerBefore(bitmaps[n].bitmap_csn)

\* The groups reached from first_ref, newest first.
RECURSIVE GroupSeqFrom(_)
GroupSeqFrom(temp_refp) ==
    IF temp_refp = NULL THEN <<>>
    ELSE <<temp_refp>> \o GroupSeqFrom(refs[temp_refp].next_ref)

GroupSeq == GroupSeqFrom(first_ref)

\* C14: disjoint group ranges: for any two linked groups, g newer than g',
\* g'.csn_range.second < g.csn_range.first and every delta stored in g' has
\* a CSN below g.csn_range.first.
C14_DisjointRanges ==
    \A i \in 1..Len(GroupSeq) : \A j \in (i + 1)..Len(GroupSeq) :
        /\ refs[GroupSeq[j]].csn_range[2] < refs[GroupSeq[i]].csn_range[1]
        /\ \A n \in ChainSet(GroupSeq[j]) :
              bitmaps[n].bitmap_csn < refs[GroupSeq[i]].csn_range[1]

\* C15: delta order: within every group the deltas reached from
\* first_compressed_bitmap along next_bitmap have strictly decreasing
\* bitmap_csn (CSNs being handed out in reservation order).
C15_DeltaOrder ==
    \A g \in AllGroups : \A k \in 1..(Len(Chain(g)) - 1) :
        bitmaps[Chain(g)[k]].bitmap_csn > bitmaps[Chain(g)[k + 1]].bitmap_csn

-----------------------------------------------------------------------------
(* Two groups opened concurrently *)

MaxRollInserts == 19
SerialPrefix == 8

\* One thread makes the first SerialPrefix insert_null calls; from then on
\* two threads call insert_null concurrently until a third group has been
\* opened.  Every insert_bitmap_content call is deferred.
InsertNull_LockAfterPrefix(w) ==
    /\ next_csn < SerialPrefix => w = SerialWriter
    /\ InsertNull_Lock(w, MaxRollInserts)

InitRoll ==
    /\ InitController
    /\ wr = [w \in Writers |-> WriterIdle]
    /\ rd = <<>>
    /\ workload = "grow"

NextRoll ==
    \E w \in Writers :
        \/ InsertNull_LockAfterPrefix(w)
        \/ InsertNull_Reserve(w)
        \/ InsertNull_NewRef(w)
        \/ InsertNull_Push(w)
        \/ InsertNull_NewBitmap(w)
        \/ InsertNull_Link(w)
        \/ Content_Defer(w)

SpecRoll == InitRoll /\ [][NextRoll]_vars

\* No insert_null of SpecRoll captures a null group.
RollNoFault == \A w \in Writers : ~ENABLED InsertNull_NullRef(w)

\* C16: group order: the groups reached from first_ref along next_ref have
\* strictly decreasing csn_range.first (CSNs being handed out in reservation
\* order).
C16_GroupOrder ==
    \A k \in 1..(Len(GroupSeq) - 1) :
        refs[GroupSeq[k]].csn_range[1] > refs[GroupSeq[k + 1]].csn_range[1]

\* The least CSN among the deltas of group g.
MinCsn(g) ==
    CHOOSE c \in {bitmaps[n].bitmap_csn : n \in ChainSet(g)} :
        \A n \in ChainSet(g) : c <= bitmaps[n].bitmap_csn

\* The delta at the end of group g's chain: the one insert_null created
\* together with g.
ChainTail(g) == Chain(g)[Len(Chain(g))]

\* C17: lo is the group's minimum: every group's csn_range.first equals the
\* CSN of the delta that created the group, the tail of its chain, and the
\* minimum CSN over the group's deltas (CSNs being handed out in reservation
\* order).
C17_LoIsMinimum ==
    \A g \in AllGroups :
        /\ refs[g].csn_range[1] = bitmaps[ChainTail(g)].bitmap_csn
        /\ bitmaps[ChainTail(g)].compressed_bitmap = <<0>>
        /\ refs[g].csn_range[1] = MinCsn(g)

\* A second group has been opened and a delta that reserved after its
\* opener has been linked into the first group.
C17_Witness ==
    /\ Len(refs) = 2
    /\ \E n \in ChainSet(1) : bitmaps[n].bitmap_csn > refs[2].csn_range[1]
    /\ Len(Chain(2)) >= 1

\* Writer w is inside insert_bitmap_content (lines 284-323) for group g.
InsideContent(w, g) ==
    /\ wr[w].ref = g
    /\ wr[w].pc \in {"install", "lock", "walk", "union", "range"}

\* C18: hi covers materialized deltas: whenever no writer is inside
\* insert_bitmap_content for group g, g.csn_range.second is at least the CSN
\* of every non-placeholder delta of g.
C18_HiCoversMaterialized ==
    \A g \in AllGroups :
        (\A w \in DOMAIN wr : ~InsideContent(w, g))
            => \A n \in ChainSet(g) :
                  ~IsPlaceholder(n) => refs[g].csn_range[2] >= bitmaps[n].bitmap_csn

\* The part of C18 that holds: the same, for groups whose chain is in
\* decreasing CSN order.
C18_HiCoversWhenOrdered ==
    \A g \in AllGroups :
        (/\ \A w \in DOMAIN wr : ~InsideContent(w, g)
         /\ \A k \in 1..(Len(Chain(g)) - 1) :
               bitmaps[Chain(g)[k]].bitmap_csn > bitmaps[Chain(g)[k + 1]].bitmap_csn)
            => \A n \in ChainSet(g) :
                  ~IsPlaceholder(n) => refs[g].csn_range[2] >= bitmaps[n].bitmap_csn

\* Writer w has linked its placeholder and has not yet taken ref_lock at
\* line 289.
BeforeLockedSection(w) == wr[w].pc \in {"content", "install", "lock"}

\* C19: payload installed under the group lock as one atomic transition: a
\* delta whose writer has not yet entered the locked section of
\* insert_bitmap_content is a placeholder, with the payload pointer null and
\* the encoding tag as the constructor left it.
C19_InstalledUnderLock ==
    \A w \in DOMAIN wr :
        BeforeLockedSection(w)
            => /\ IsPlaceholder(wr[w].bitmap)
               /\ bitmaps[wr[w].bitmap].is_compressed = FALSE

\* C20: payload written exactly once: no step changes the payload (the
\* buffer the pointer refers to, or its contents) or the encoding tag of a
\* delta that is materialized.
C20_WrittenOnce ==
    [][\A n \in 1..Len(bitmaps) :
          ~IsPlaceholder(n)
             => /\ bitmaps'[n].compressed_bitmap = bitmaps[n].compressed_bitmap
                /\ bitmaps'[n].gen = bitmaps[n].gen
                /\ bitmaps'[n].is_compressed = bitmaps[n].is_compressed]_vars

\* The part of C20 that holds: the encoding tag of a materialized delta
\* never changes.
C20_TagWrittenOnce ==
    [][\A n \in 1..Len(bitmaps) :
          ~IsPlaceholder(n)
             => bitmaps'[n].is_compressed = bitmaps[n].is_compressed]_vars

-----------------------------------------------------------------------------
(* Claims about propagation *)

\* C21: readers never touch freed payloads: the payload buffer a reader is
\* about to decode inside get_bitmap has not been deleted by a concurrent
\* union_sorted_array.
C21_ReadersSeeLiveBuffers ==
    \A r \in DOMAIN rd :
        (rd[r].pc = "decode" /\ rd[r].compressed_bitmap # NULLBUF) => BufferLive(r)

\* The materialized deltas directly above w's delta p in the chain, up to
\* the nearest placeholder: the run that ends immediately before p.
RunAbove(w) ==
    LET c == Chain(wr[w].ref)
        ip == ChainIndex(wr[w].ref, wr[w].bitmap)
    IN {c[k] : k \in {j \in 1..(ip - 1) :
                         \A i \in j..(ip - 1) : ~IsPlaceholder(c[i])}}

\* The newest delta of that run, NULL when the delta directly above p is a
\* placeholder or p is the head.
RunStart(w) ==
    IF RunAbove(w) = {} THEN NULL
    ELSE CHOOSE n \in RunAbove(w) :
            \A m \in RunAbove(w) : ChainIndex(wr[w].ref, n) <= ChainIndex(wr[w].ref, m)

\* The deltas from start down to p, p excluded.
FromStartToP(w, start) ==
    IF start = NULL THEN {}
    ELSE {n \in ChainSet(wr[w].ref) :
            /\ ChainIndex(wr[w].ref, start) <= ChainIndex(wr[w].ref, n)
            /\ ChainIndex(wr[w].ref, n) < ChainIndex(wr[w].ref, wr[w].bitmap)}

\* The deltas whose payload a step replaces.
Rewritten == {n \in 1..Len(bitmaps) : bitmaps'[n] # bitmaps[n]}

\* Writer w runs the walk of lines 292-305 to its end.
WalkOf(w) == wr[w].pc = "walk" /\ wr'[w].pc = "union"

\* Writer w runs the union loop of lines 307-314 to its end.
UnionLoopOf(w) == wr[w].pc = "union" /\ wr'[w].pc = "range"

\* C22: propagation target set: when insert_bitmap_content materializes p,
\* the walk leaves start on the newest delta of the contiguous run of
\* materialized deltas that ends immediately before p (null when there is
\* none), and the union loop rewrites every delta from start down to but
\* excluding p, and no other delta.
C22_PropagationTargets ==
    [][\A w \in DOMAIN wr :
          /\ WalkOf(w) => wr'[w].start_compress_point = RunStart(w)
          /\ UnionLoopOf(w)
                => Rewritten = FromStartToP(w, wr[w].start_compress_point)]_vars

\* The part of C22 that holds: the union loop rewrites the deltas from the
\* start the walk left down to but excluding p, and no other delta; the walk
\* leaves start null or on a materialized delta above p with no placeholder
\* between it and p.
C22_NoOtherTargets ==
    [][\A w \in DOMAIN wr :
          /\ WalkOf(w) => wr'[w].start_compress_point \in RunAbove(w) \cup {NULL}
          /\ UnionLoopOf(w)
                => Rewritten = FromStartToP(w, wr[w].start_compress_point)]_vars

\* Delta n is materialized with the dense encoding.
IsDense(n) == ~IsPlaceholder(n) /\ ~bitmaps[n].is_compressed

\* C23: dense-payload exception: the union loop of insert_bitmap_content
\* leaves every delta whose payload is dense unchanged, and rewrites nothing
\* when p's own payload is dense (a dense payload is never an operand of
\* union_sorted_array).
C23_DenseException ==
    [][\A w \in DOMAIN wr :
          UnionLoopOf(w)
             => /\ \A n \in 1..Len(bitmaps) : IsDense(n) => bitmaps'[n] = bitmaps[n]
                /\ IsDense(wr[w].bitmap) => bitmaps' = bitmaps]_vars

\* C24: materialization preserves every other delta's image: no step of
\* insert_bitmap_content for p changes what another materialized delta of the
\* group, newer or older than p, decodes to when it decoded to the image
\* submitted for its CSN.
C24_OthersPreserved ==
    [][\A w \in DOMAIN wr :
         (InContent(w) /\ wr'[w] # wr[w])
            => \A g \in {wr[w].ref} : \A d \in ChainSet(wr[w].ref) \ {wr[w].bitmap} :
                 DecodesToSubmitted(g, d) => DecodesToSubmitted(g, d)']_vars

\* What a get_bitmap(require_csn) call that runs from start to end in the
\* present state does: ret is "false" or "true" as the call returns, or
\* "fault" when it hands decompress_bitmap a null or too short payload;
\* bitmap_result is the decoded image when ret is "true".
ReadOf(require_csn) ==
    LET g == find_ref(first_ref, require_csn)
    IN IF g = NULL \/ g = -1 THEN [ret |-> "false", bitmap_result |-> << >>]
       ELSE LET n == find_bitmap(refs[g].first_compressed_bitmap, require_csn)
            IN IF n = NULL THEN [ret |-> "false", bitmap_result |-> << >>]
               ELSE IF IsPlaceholder(n)
                       \/ ~decompress_defined(bitmaps[n].compressed_bitmap,
                                              bitmaps[n].is_compressed)
               THEN [ret |-> "fault", bitmap_result |-> << >>]
               ELSE [ret |-> "true",
                     bitmap_result |->
                         decompress_bitmap(refs[g].complete_bitmap,
                                           bitmaps[n].compressed_bitmap,
                                           bitmaps[n].is_compressed)]

\* get_bitmap(require_csn) returns true with the image submitted for the CSN.
ReadsSubmitted(require_csn) ==
    /\ ReadOf(require_csn).ret = "true"
    /\ ReadOf(require_csn).bitmap_result = original_bitmap(require_csn)

\* Every writer has finished and no delta is a placeholder.
AllMaterialized ==
    /\ Running
    /\ \A w \in DOMAIN wr : wr[w].pc = "idle"
    /\ \A n \in 1..Len(bitmaps) : ~IsPlaceholder(n)

ChainOrdered(g) ==
    \A k \in 1..(Len(Chain(g)) - 1) :
        bitmaps[Chain(g)[k]].bitmap_csn > bitmaps[Chain(g)[k + 1]].bitmap_csn

\* When every insert_bitmap_content call runs before the next insert_null,
\* which is the order of increasing CSN, every CSN reads back as the image
\* submitted for it.
SerialReadsSubmitted ==
    AllMaterialized
        => \A c \in 0..(next_csn - 1) : ReadsSubmitted(c)

\* C25: materialization order independence: for placeholders inserted into
\* one group in CSN order, once all writers have finished get_bitmap returns
\* for each CSN the same image whatever order the insert_bitmap_content
\* calls ran in, that is, the image it returns when they run in CSN order
\* (SerialReadsSubmitted: the submitted image).
C25_OrderIndependence ==
    (AllMaterialized /\ Len(refs) = 1 /\ ChainOrdered(1))
        => \A c \in 0..(next_csn - 1) : ReadsSubmitted(c)

\* C26: atomic group publication: every group reachable from first_ref has
\* its opener's image as reference bitmap (at every moment from its linking
\* on, so the reference is never modified), a non-empty delta chain whose
\* tail is a materialized zero-difference sparse delta with the CSN
\* csn_range.first, and csn_range.first <= csn_range.second; and once the
\* opener's insert_null has returned, get_bitmap reads the opener's CSN.
C26_AtomicPublication ==
    \A g \in LinkedGroups :
        /\ refs[g].complete_bitmap = original_bitmap(refs[g].csn_range[1])
        /\ Len(Chain(g)) >= 1
        /\ bitmaps[ChainTail(g)].bitmap_csn = refs[g].csn_range[1]
        /\ bitmaps[ChainTail(g)].compressed_bitmap = <<0>>
        /\ bitmaps[ChainTail(g)].is_compressed
        /\ refs[g].csn_range[1] <= refs[g].csn_range[2]
        /\ refs[g].csn_range[1] \in completed
              => ReadsSubmitted(refs[g].csn_range[1])

\* The part of C26 that holds: the shape of every linked group.
C26_PublishedShape ==
    \A g \in LinkedGroups :
        /\ refs[g].complete_bitmap = original_bitmap(refs[g].csn_range[1])
        /\ Len(Chain(g)) >= 1
        /\ bitmaps[ChainTail(g)].bitmap_csn = refs[g].csn_range[1]
        /\ bitmaps[ChainTail(g)].compressed_bitmap = <<0>>
        /\ bitmaps[ChainTail(g)].is_compressed
        /\ refs[g].csn_range[1] <= refs[g].csn_range[2]

-----------------------------------------------------------------------------
(* Claims about progress *)

\* The std::mutex objects writer w holds: "cnt" for head_bitmap_cnt_lock,
\* "head" for head_lock, and the index of every group whose ref_lock it holds.
LocksHeld(w) ==
    (IF head_bitmap_cnt_lock = w THEN {"cnt"} ELSE {})
        \cup (IF head_lock = w THEN {"head"} ELSE {})
        \cup {g \in AllGroups : refs[g].ref_lock = w}

\* The writer threads alone, each scheduled again and again: a thread that
\* can take a step (its mutex is free, or it needs none) eventually takes it.
NextFair == \E w \in Writers : WriterStep(w, MaxInserts)

SpecFair ==
    /\ InitAlloc
    /\ [][NextFair]_vars
    /\ \A w \in Writers : WF_vars(WriterStep(w, MaxInserts))

\* No writer ever holds more than one lock.
OneLockAtATime == \A w \in Writers : Cardinality(LocksHeld(w)) <= 1

\* C27: writer progress: no writer holds more than one lock at a time, and
\* under fair scheduling every insert_null and insert_bitmap_content call
\* that has started eventually returns with its locks released.
C27_WriterProgress ==
    /\ [](\A w \in Writers : Cardinality(LocksHeld(w)) <= 1)
    /\ \A w \in Writers :
          (wr[w].pc # "idle") ~> (wr[w].pc = "idle" /\ LocksHeld(w) = {})

-----------------------------------------------------------------------------
(* union_sorted_array on its own *)

\* Byte positions the operands are drawn from, the lowest and the highest
\* index of an image among them.
UnionPositions == {0, 1, 4, BITMAP_SIZE - 1}

RECURSIVE AscendingSeq(_)
AscendingSeq(S) ==
    IF S = {} THEN <<>>
    ELSE LET m == CHOOSE x \in S : \A y \in S : x <= y
         IN <<m>> \o AscendingSeq(S \ {m})

\* A sparse payload as compress_bitmap writes it: the count, then the
\* positions in ascending order.
SparsePayload(S) == <<Cardinality(S)>> \o AscendingSeq(S)

\* The positions of a sparse payload.
PositionsOf(a) == {a[t] : t \in 2..Len(a)}

StrictlyAscending(a) == \A t \in 2..(Len(a) - 1) : a[t] < a[t + 1]

InitUnion ==
    /\ CtlIdle
    /\ \E A \in SUBSET UnionPositions, B \in SUBSET UnionPositions :
          codec = [pc |-> "args", a |-> SparsePayload(A), b |-> SparsePayload(B),
                   a_in |-> SparsePayload(A), b_in |-> SparsePayload(B)]

\* union_sorted_array(a, b)
Union_Call ==
    /\ codec.pc = "args"
    /\ union_defined(codec.a, codec.b)
    /\ codec' = [codec EXCEPT !.pc = "once",
                              !.a = union_sorted_array(codec.a, codec.b)]
    /\ UNCHANGED ctl_vars

\* a second union_sorted_array(a, b) on the result of the first
Union_Again ==
    /\ codec.pc = "once"
    /\ union_defined(codec.a, codec.b)
    /\ codec' = [codec EXCEPT !.pc = "twice",
                              !.a = union_sorted_array(codec.a, codec.b)]
    /\ UNCHANGED ctl_vars

\* union_sorted_array(a, a): b_data reads the buffer of a, which is deleted
\* at line 104 only after the merge
Union_Self ==
    /\ codec.pc = "args"
    /\ union_defined(codec.a, codec.a)
    /\ codec' = [codec EXCEPT !.pc = "self",
                              !.a = union_sorted_array(codec.a, codec.a)]
    /\ UNCHANGED ctl_vars

NextUnion == Union_Call \/ Union_Again \/ Union_Self

SpecUnion == InitUnion /\ [][NextUnion]_vars

\* C28: sorted-index union: for strictly ascending a and b,
\* union_sorted_array(a, b) leaves in a the strictly ascending set union of
\* the two position lists with a[0] the number of positions, and leaves b
\* as it was; union(a, a) leaves the positions of a, and union(union(a, b), b)
\* leaves the positions of union(a, b).
C28_SortedUnion ==
    /\ codec.pc \in {"once", "twice"} =>
          /\ StrictlyAscending(codec.a)
          /\ PositionsOf(codec.a) = PositionsOf(codec.a_in) \cup PositionsOf(codec.b_in)
          /\ codec.a[1] = Len(codec.a) - 1
          /\ codec.a[1] = Cardinality(PositionsOf(codec.a))
          /\ codec.b = codec.b_in
    /\ codec.pc = "twice" => codec.a = union_sorted_array(codec.a_in, codec.b_in)
    /\ codec.pc = "self" =>
          /\ codec.a = codec.a_in
          /\ PositionsOf(codec.a) = PositionsOf(codec.a_in)

\* A union in which a common position collapses and each operand brings a
\* position of its own.
C28_Witness ==
    /\ codec.pc = "once"
    /\ PositionsOf(codec.a_in) \cap PositionsOf(codec.b_in) # {}
    /\ PositionsOf(codec.a_in) \ PositionsOf(codec.b_in) # {}
    /\ PositionsOf(codec.b_in) \ PositionsOf(codec.a_in) # {}
    /\ codec.a[1] < codec.a_in[1] + codec.b_in[1]

=============================================================================
